---------------------------- MODULE Spec2Model ----------------------------
(***************************************************************************)
(* The two Celery tasks of backend/app/tasks.py:                           *)
(*   long_running_task          sleeps, then returns {status: completed}   *)
(*   calculate_statistics_task  sleeps, then returns mean / population     *)
(*                              standard deviation / count / min / max     *)
(*                              of a list of numbers.                      *)
(*                                                                         *)
(* Numbers.  The argument of calculate_statistics_task is a list of        *)
(* decimal numbers.  A list is modelled as a record [m, e]: the sequence   *)
(* m of integer mantissas and the number e of fractional digits they       *)
(* share, element i being m[i] * 10^(-e).  Every number of a returned      *)
(* record is an integer count of 10^(-MaxExp), so that two numbers are     *)
(* equal exactly when their representations are.  Arithmetic is exact      *)
(* (decimal), with one allowance for the binary floats of the program:     *)
(* where round() meets a decimal tie, the float lies on either side of     *)
(* it, and the model lets the rounding go either way.  Float overflow is   *)
(* outside the model.                                                      *)
(***************************************************************************)
EXTENDS Integers, Sequences, FiniteSets, TLC

\* ---------------------------------------------------------------- bounds
\* longest argument list drawn exhaustively
MaxLen == 3
\* largest magnitude of a mantissa
MaxAbs == 3
\* largest number of fractional digits of an argument
MaxExp == 5
\* number of worker execution contexts of the concurrent specifications
NumWorkers == 2
\* longest argument list of the concurrent specifications
ConcMaxLen == 2

\* ------------------------------------------------------- program constants
\* round(mean, 4), round(std_dev, 4)
NDigits == 4

\* ------------------------------------------------------------- arithmetic
RECURSIVE Pow10(_)
Pow10(k) == IF k = 0 THEN 1 ELSE 10 * Pow10(k - 1)

\* one unit of the last returned decimal place, in units of 10^(-MaxExp)
Ulp == Pow10(MaxExp - NDigits)

\* a sum that leaves its last term out
RECURSIVE SumButLast(_)
SumButLast(s) == IF Len(s) <= 1 THEN 0 ELSE Head(s) + SumButLast(Tail(s))

RECURSIVE SumSeq(_)
SumSeq(s) == IF s = <<>> THEN 0 ELSE Head(s) + SumSeq(Tail(s))

\* the first element taken for the least
FirstOfSeq(s) == Head(s)

RECURSIVE MinSeq(_)
MinSeq(s) ==
  IF Len(s) = 1 THEN Head(s)
  ELSE LET r == MinSeq(Tail(s)) IN IF Head(s) <= r THEN Head(s) ELSE r

RECURSIVE MaxSeq(_)
MaxSeq(s) ==
  IF Len(s) = 1 THEN Head(s)
  ELSE LET r == MaxSeq(Tail(s)) IN IF Head(s) >= r THEN Head(s) ELSE r

\* a rounding that truncates downwards
RoundDown(num, den, up) == num \div den

\* Python's round() on the value num/den (den > 0): the nearest integer.
\* When the decimal value lies exactly half way, the float holding it lies
\* on either side of the tie (or on it, and round() goes to the even
\* neighbour): up says which neighbour the float rounds to.
Round(num, den, up) ==
  LET q == num \div den
      r == num % den
  IN  IF 2 * r < den THEN q
      ELSE IF 2 * r > den THEN q + 1
      ELSE IF up THEN q + 1 ELSE q

\* an extremum rounded like the mean
ValRounded(mant, e) == Round(mant * Pow10(NDigits), Pow10(e), FALSE) * Ulp

\* the number mant * 10^(-e), in units of 10^(-MaxExp)
Val(mant, e) == mant * Pow10(MaxExp - e)

\* [q, r] with num * 10^digits = q * den + r and 0 <= r < den, by long
\* division (num * 10^digits itself may not fit a machine integer).
RECURSIVE LongDiv(_, _, _)
LongDiv(num, den, digits) ==
  IF digits = 0 THEN [q |-> num \div den, r |-> num % den]
  ELSE LET p == LongDiv(num, den, digits - 1)
       IN  [q |-> 10 * p.q + (10 * p.r) \div den, r |-> (10 * p.r) % den]

RECURSIVE SqrtSearch(_, _, _)
SqrtSearch(k, lo, hi) ==
  IF lo = hi THEN lo
  ELSE LET mid == (lo + hi + 1) \div 2
       IN  IF mid * mid <= k THEN SqrtSearch(k, mid, hi)
           ELSE SqrtSearch(k, lo, mid - 1)

\* floor(sqrt(k)) for 0 <= k < 2^31
ISqrt(k) == SqrtSearch(k, 0, 46340)

\* round(math.sqrt(v), NDigits) in units of 10^(-NDigits), for the exact
\* value v = (num / den) * 10^(-2e); up as for Round
RoundSqrt(num, den, e, up) ==
  LET d  == IF e > NDigits THEN den * Pow10(2 * (e - NDigits)) ELSE den
      p  == IF e > NDigits THEN [q |-> num \div d, r |-> num % d]
            ELSE LongDiv(num, den, 2 * (NDigits - e))
      f  == ISqrt(p.q)
      t  == p.q - f * f - f
  IN  IF t < 0 THEN f
      ELSE IF t > 0 THEN f + 1
      ELSE IF 4 * p.r < d THEN f
      ELSE IF 4 * p.r > d THEN f + 1
      ELSE IF up THEN f + 1 ELSE f

\* sum((x - mean) ** 2 for x in values) * n^2, over the mantissas
RECURSIVE SumSqDev(_, _, _)
SumSqDev(s, n, total) ==
  IF s = <<>> THEN 0
  ELSE (n * Head(s) - total) * (n * Head(s) - total)
       + SumSqDev(Tail(s), n, total)

\* ------------------------------------------------------------ the tasks
NoResult == [pending |-> TRUE]
NoValues == [m |-> <<>>, e |-> 0]

\* a task that reports itself unfinished
long_running_pending == [status |-> "pending"]

long_running_task == [status |-> "completed"]

\* a list of one element taken for an empty one
FewValuesGiven(values) == Len(values.m) <= 1

\* if not values or len(values) == 0
NoValuesGiven(values) == Len(values.m) = 0

\* an error record that carries extrema as well
NoValuesRecordWithExtrema ==
  [mean |-> 0, std_dev |-> 0, count |-> 0, min |-> 0, max |-> 0,
   error |-> "No values provided"]

\* the record returned for an empty list
NoValuesRecord ==
  [mean |-> 0, std_dev |-> 0, count |-> 0, error |-> "No values provided"]

\* the sample variance's divisor
SampleDivisor(n) == n - 1

\* variance = sum(...) / n
VarianceDivisor(n) == n

\* a task that rounds the mean to the digits of its argument, not to NDigits
StatisticsRoundingFiner(values, upMean, upStd) ==
  IF NoValuesGiven(values)
    THEN NoValuesRecord
    ELSE LET n       == Len(values.m)
             total   == SumSeq(values.m)
             mean    == Round(total * Pow10(MaxExp - values.e), n, upMean)
             std_dev == IF n > 1
                          THEN RoundSqrt(SumSqDev(values.m, n, total),
                                         n * n * VarianceDivisor(n),
                                         values.e, upStd)
                          ELSE 0
         IN  [mean    |-> mean,
              std_dev |-> std_dev * Ulp,
              count   |-> n,
              min     |-> Val(MinSeq(values.m), values.e),
              max     |-> Val(MaxSeq(values.m), values.e)]

\* the record returned for values, the two round() calls resolving a
\* decimal tie as upMean and upStd say
Statistics(values, upMean, upStd) ==
  IF NoValuesGiven(values)
    THEN NoValuesRecord
    ELSE LET n       == Len(values.m)
             total   == SumSeq(values.m)
             mean    == Round(total * Pow10(NDigits), n * Pow10(values.e),
                              upMean)
             std_dev == IF n > 1
                          THEN RoundSqrt(SumSqDev(values.m, n, total),
                                         n * n * VarianceDivisor(n),
                                         values.e, upStd)
                          ELSE 0
         IN  [mean    |-> mean * Ulp,
              std_dev |-> std_dev * Ulp,
              count   |-> n,
              min     |-> Val(MinSeq(values.m), values.e),
              max     |-> Val(MaxSeq(values.m), values.e)]

\* the records calculate_statistics_task(values) can return: one, unless a
\* rounded value is a decimal tie
calculate_statistics_task(values) ==
  {Statistics(values, upMean, upStd) : upMean \in BOOLEAN, upStd \in BOOLEAN}

\* ------------------------------------------------------------- the state
VARIABLES
  pc,      \* per worker: "idle", "sleeping" (inside time.sleep), "returned"
  task,    \* per worker: the task it runs, or "none"
  values,  \* per worker: the argument of calculate_statistics_task
  result   \* per worker: the record the task returned

vars == <<pc, task, values, result>>

Workers == 1..NumWorkers

RECURSIVE SeqsUpTo(_, _)
SeqsUpTo(S, k) ==
  IF k = 0 THEN {<<>>}
  ELSE LET shorter == SeqsUpTo(S, k - 1)
       IN  shorter \cup {Append(s, x) : s \in shorter, x \in S}

Example == [m |-> <<2, 4, 4, 4, 5, 5, 7, 9>>, e |-> 0]

\* mantissas of numbers with more digits than round() keeps, among them
\* the decimal ties 0.00005 and 0.00015
FineMantissas == {-15, -5, 5, 15, 1234}

\* the argument lists of the sequential specification
Inputs ==
  [m : SeqsUpTo(-MaxAbs..MaxAbs, MaxLen), e : 0..MaxExp]
    \cup [m : SeqsUpTo(FineMantissas, MaxLen), e : NDigits..MaxExp]
    \cup {Example}

\* the argument lists of the concurrent specifications
ConcInputs == [m : SeqsUpTo(0..1, ConcMaxLen), e : {0}]

Init ==
  /\ pc     = [w \in Workers |-> "idle"]
  /\ task   = [w \in Workers |-> "none"]
  /\ values = [w \in Workers |-> NoValues]
  /\ result = [w \in Workers |-> NoResult]

\* a worker takes calculate_statistics_task(values = v), v any of the
\* argument lists args, and enters time.sleep(0.5)
CallStatistics(w, args) ==
  /\ pc[w] = "idle"
  /\ pc'   = [pc EXCEPT ![w] = "sleeping"]
  /\ task' = [task EXCEPT ![w] = "statistics"]
  /\ \E v \in args : values' = [values EXCEPT ![w] = v]
  /\ UNCHANGED result

\* a task that sorts its argument in place before computing
StatisticsReturnSorting(w) ==
  /\ pc[w] = "sleeping"
  /\ task[w] = "statistics"
  /\ pc'     = [pc EXCEPT ![w] = "returned"]
  /\ values' = [values EXCEPT
                  ![w].m = SortSeq(values[w].m, LAMBDA a, b : a < b)]
  /\ \E r \in calculate_statistics_task(values[w]) :
       result' = [result EXCEPT ![w] = r]
  /\ UNCHANGED task

\* the sleep is over: the statistics are computed and returned
StatisticsReturn(w) ==
  /\ pc[w] = "sleeping"
  /\ task[w] = "statistics"
  /\ pc'     = [pc EXCEPT ![w] = "returned"]
  /\ \E r \in calculate_statistics_task(values[w]) :
       result' = [result EXCEPT ![w] = r]
  /\ UNCHANGED <<task, values>>

\* a worker takes long_running_task() and enters time.sleep(10)
CallLongRunning(w) ==
  /\ pc[w] = "idle"
  /\ pc'   = [pc EXCEPT ![w] = "sleeping"]
  /\ task' = [task EXCEPT ![w] = "long_running"]
  /\ UNCHANGED <<values, result>>

\* the sleep is over: the task returns
LongRunningReturn(w) ==
  /\ pc[w] = "sleeping"
  /\ task[w] = "long_running"
  /\ pc'     = [pc EXCEPT ![w] = "returned"]
  /\ result' = [result EXCEPT ![w] = long_running_task]
  /\ UNCHANGED <<task, values>>

\* the task queue takes the returned record; the worker is free again
Collect(w) ==
  /\ pc[w] = "returned"
  /\ pc'     = [pc EXCEPT ![w] = "idle"]
  /\ task'   = [task EXCEPT ![w] = "none"]
  /\ values' = [values EXCEPT ![w] = NoValues]
  /\ result' = [result EXCEPT ![w] = NoResult]

\* one worker, every argument list within the bounds
Next ==
  \E w \in {1} :
    \/ CallStatistics(w, Inputs)
    \/ StatisticsReturn(w)
    \/ CallLongRunning(w)
    \/ LongRunningReturn(w)
    \/ Collect(w)

Spec == Init /\ [][Next]_vars

\* every worker, tasks interleaved in any order
ConcNext ==
  \E w \in Workers :
    \/ CallStatistics(w, ConcInputs)
    \/ StatisticsReturn(w)
    \/ CallLongRunning(w)
    \/ LongRunningReturn(w)
    \/ Collect(w)

ConcSpec == Init /\ [][ConcNext]_vars

\* time.sleep(10) returns: a long_running_task that can return does
LiveSpec ==
  /\ Init
  /\ [][ConcNext]_vars
  /\ \A w \in Workers : WF_vars(LongRunningReturn(w))

\* the worker of the sequential specification
Returned == pc[1] = "returned" /\ task[1] = "statistics"
Arg == values[1]
Rec == result[1]

\* -------------------------------------------- arithmetic of the properties
\* 10^(-4), in units of 10^(-MaxExp)
TenThousandth == Pow10(MaxExp) \div 10000

Abs(x) == IF x < 0 THEN -x ELSE x

\* Natural numbers beyond the machine integers: the sequence of the digits
\* in base 10^4, lowest first, no leading zero digit.
RECURSIVE BigTimes(_, _, _)
BigTimes(X, k, carry) ==
  IF X = <<>>
    THEN IF carry = 0 THEN <<>>
         ELSE <<carry % 10000>> \o BigTimes(X, k, carry \div 10000)
    ELSE LET t == Head(X) * k + carry
         IN  <<t % 10000>> \o BigTimes(Tail(X), k, t \div 10000)

\* the product of the factors, each in 0..100000 but the last, which is any
\* machine integer
RECURSIVE BigProduct(_)
BigProduct(factors) ==
  IF factors = <<>> THEN <<1>>
  ELSE BigTimes(BigProduct(Tail(factors)), Head(factors), 0)

RECURSIVE BigLeqFrom(_, _, _)
BigLeqFrom(X, Y, i) ==
  IF i = 0 THEN TRUE
  ELSE IF X[i] # Y[i] THEN X[i] < Y[i]
  ELSE BigLeqFrom(X, Y, i - 1)

BigLeq(X, Y) ==
  IF Len(X) # Len(Y) THEN Len(X) < Len(Y) ELSE BigLeqFrom(X, Y, Len(X))

RECURSIVE Repeat(_, _)
Repeat(x, k) == IF k = 0 THEN <<>> ELSE <<x>> \o Repeat(x, k - 1)

RECURSIVE SumOfSquares(_)
SumOfSquares(s) ==
  IF s = <<>> THEN 0 ELSE Head(s) * Head(s) + SumOfSquares(Tail(s))

\* r * 10^(-4) is sqrt(variance) rounded to 4 decimals, the variance of the
\* n mantissas m (with e fractional digits) being
\* (n * sum(x^2) - sum(x)^2) / n^2 * 10^(-2e):
\*   (2r - 1)^2 * n^2 * 10^(2e) <= 4 * 10^8 * (n sum(x^2) - sum(x)^2)
\*                              <= (2r + 1)^2 * n^2 * 10^(2e)
IsRoundedStdDev(r, m, e) ==
  LET n  == Len(m)
      p  == n * SumOfSquares(m) - SumSeq(m) * SumSeq(m)
      v  == BigProduct(<<4, 10000, 10000, p>>)
      lo == BigProduct(<<2 * r - 1, 2 * r - 1, n, n>> \o Repeat(100, e))
      hi == BigProduct(<<2 * r + 1, 2 * r + 1, n, n>> \o Repeat(100, e))
  IN  /\ r >= 0
      /\ IF p = 0 THEN r = 0
         ELSE /\ r = 0 \/ BigLeq(lo, v)
              /\ BigLeq(v, hi)

\* k * 10^(-4) is sum(m) / n * 10^(-e) rounded to 4 decimals
IsRoundedMean(k, m, e) ==
  2 * Abs(k * Len(m) * Pow10(e) - SumSeq(m) * 10000) <= Len(m) * Pow10(e)

\* ------------------------------------------------------------ properties
NonEmpty == Returned /\ Len(Arg.m) > 0

Keys(rec) == DOMAIN rec

\* C1: calculate_statistics_task of an empty sequence returns (the call can
\* always complete) exactly {mean: 0, std_dev: 0, count: 0,
\* error: "No values provided"}, a record with no min and no max key.
C1_EmptyRecord ==
  /\ (pc[1] = "sleeping" /\ task[1] = "statistics" /\ Len(Arg.m) = 0)
       => ENABLED StatisticsReturn(1)
  /\ (Returned /\ Len(Arg.m) = 0)
       => /\ Rec = [mean |-> 0, std_dev |-> 0, count |-> 0,
                    error |-> "No values provided"]
          /\ "min" \notin Keys(Rec)
          /\ "max" \notin Keys(Rec)

C1_Witness == Returned /\ Arg.m = <<>> /\ "error" \in Keys(Rec)

\* C2: for a non-empty sequence of length n the returned mean is sum/n
\* rounded to 4 decimals and, when n > 1, the returned std_dev is the square
\* root of the population variance (divisor n, deviations from the unrounded
\* mean) rounded to 4 decimals.
C2_MeanAndStdDev ==
  NonEmpty =>
    /\ Rec.mean % TenThousandth = 0
    /\ IsRoundedMean(Rec.mean \div TenThousandth, Arg.m, Arg.e)
    /\ Len(Arg.m) > 1 =>
         /\ Rec.std_dev % TenThousandth = 0
         /\ IsRoundedStdDev(Rec.std_dev \div TenThousandth, Arg.m, Arg.e)

C2_Witness ==
  NonEmpty /\ Len(Arg.m) > 1 /\ Rec.std_dev > 0
    /\ Rec.mean # 0 /\ SumSeq(Arg.m) * 10000 % (Len(Arg.m) * Pow10(Arg.e)) # 0

\* C3 as stated: for every non-empty sequence the returned (rounded) mean
\* lies between the returned (unrounded) min and max.
C3_MeanBetweenExtrema ==
  NonEmpty => Rec.min <= Rec.mean /\ Rec.mean <= Rec.max

\* C3 amended: the returned mean lies within half a unit of the fourth
\* decimal of the interval [min, max], and inside it when min and max have
\* at most 4 decimals.
C3_MeanNearExtrema ==
  NonEmpty =>
    /\ 2 * Rec.min - TenThousandth <= 2 * Rec.mean
    /\ 2 * Rec.mean <= 2 * Rec.max + TenThousandth
    /\ (Rec.min % TenThousandth = 0 /\ Rec.max % TenThousandth = 0)
         => Rec.min <= Rec.mean /\ Rec.mean <= Rec.max

C3_Witness ==
  NonEmpty /\ Len(Arg.m) > 1 /\ Rec.min < Rec.max /\ Rec.mean > Rec.max

\* C4 as stated: for a sequence [x] the returned mean equals x, std_dev is
\* 0, count is 1 and min and max equal x.
C4_SingleElementExact ==
  (Returned /\ Len(Arg.m) = 1) =>
    /\ Rec.mean = Arg.m[1] * Pow10(MaxExp - Arg.e)
    /\ Rec.std_dev = 0
    /\ Rec.count = 1
    /\ Rec.min = Arg.m[1] * Pow10(MaxExp - Arg.e)
    /\ Rec.max = Arg.m[1] * Pow10(MaxExp - Arg.e)

\* C4 amended: for a sequence [x] the returned mean is x rounded to 4
\* decimals (x itself when x has at most 4 decimals), std_dev is 0, count is
\* 1 and min and max equal x.
C4_SingleElementRounded ==
  (Returned /\ Len(Arg.m) = 1) =>
    LET x == Arg.m[1] * Pow10(MaxExp - Arg.e)
    IN  /\ Rec.mean % TenThousandth = 0
        /\ 2 * Abs(Rec.mean - x) <= TenThousandth
        /\ x % TenThousandth = 0 => Rec.mean = x
        /\ Rec.std_dev = 0
        /\ Rec.count = 1
        /\ Rec.min = x
        /\ Rec.max = x

C4_Witness ==
  Returned /\ Len(Arg.m) = 1 /\ Rec.mean # Rec.min /\ Rec.std_dev = 0

\* C5: for a non-empty sequence count is its length, min its least and max
\* its greatest element, both as given (not rounded).
C5_CountAndExtrema ==
  NonEmpty =>
    LET given == {Arg.m[i] * Pow10(MaxExp - Arg.e) : i \in 1..Len(Arg.m)}
    IN  /\ Rec.count = Len(Arg.m)
        /\ Rec.min \in given
        /\ Rec.max \in given
        /\ \A x \in given : Rec.min <= x /\ x <= Rec.max

C5_Witness ==
  NonEmpty /\ Rec.count > 1 /\ Rec.min < Rec.max
    /\ Rec.min % TenThousandth # 0 /\ Arg.m[1] * Pow10(MaxExp - Arg.e) > Rec.min

\* C6: for any input, empty or not, the returned mean and std_dev are
\* integer multiples of 10^(-4).
C6_FourDecimals ==
  Returned =>
    /\ Rec.mean % TenThousandth = 0
    /\ Rec.std_dev % TenThousandth = 0

C6_Witness ==
  NonEmpty /\ Arg.e > 4 /\ Len(Arg.m) > 1
    /\ Rec.min % TenThousandth # 0 /\ Rec.mean # 0

\* C7: on [2, 4, 4, 4, 5, 5, 7, 9] the task returns mean 5.0, std_dev 2.0,
\* count 8, min 2 and max 9.
C7_Example ==
  (Returned /\ Arg = [m |-> <<2, 4, 4, 4, 5, 5, 7, 9>>, e |-> 0]) =>
    Rec = [mean    |-> 5 * Pow10(MaxExp),
           std_dev |-> 2 * Pow10(MaxExp),
           count   |-> 8,
           min     |-> 2 * Pow10(MaxExp),
           max     |-> 9 * Pow10(MaxExp)]

C7_Witness ==
  Returned /\ Arg.m = <<2, 4, 4, 4, 5, 5, 7, 9>> /\ Arg.e = 0
    /\ Rec.count = 8

\* C8: every invocation of long_running_task, whatever ran before on any
\* worker, has returned nothing while it pauses, eventually ends its pause,
\* and then has returned exactly {status: "completed"}.
C8_LongRunningCompletes ==
  \A w \in Workers :
    /\ []((pc[w] = "sleeping" /\ task[w] = "long_running")
            => result[w] = NoResult)
    /\ []((pc[w] = "returned" /\ task[w] = "long_running")
            => result[w] = [status |-> "completed"])
    /\ (pc[w] = "sleeping" /\ task[w] = "long_running")
         ~> (pc[w] = "returned" /\ task[w] = "long_running"
               /\ result[w] = [status |-> "completed"])

C8_Witness ==
  \E w \in Workers, u \in Workers :
    /\ w # u
    /\ pc[w] = "returned" /\ task[w] = "long_running"
    /\ result[w] = [status |-> "completed"]
    /\ pc[u] = "sleeping"

C10_RecordShapes ==
  Returned =>
    /\ \/ Keys(Rec) = {"mean", "std_dev", "count", "error"}
       \/ Keys(Rec) = {"mean", "std_dev", "count", "min", "max"}
    /\ "error" \in Keys(Rec) <=> Rec.count = 0
    /\ Rec.count = 0 <=> Len(Arg.m) = 0

C10_Witness ==
  Returned /\ Len(Arg.m) = 1
    /\ Keys(Rec) = {"mean", "std_dev", "count", "min", "max"}

=============================================================================
